---- MODULE Spec2Model ----
(***************************************************************************)
(* Model of the resumable pipeline of epstein-media-finder:                *)
(*   utils/state_manager.py  - the JSON state document (get / set_)        *)
(*   run_pipeline.py         - the stage orchestrator                      *)
(*   scripts/08_run_ocr.py, scripts/10_finish_social_checks.py            *)
(*                           - the two stages that keep a row cursor       *)
(***************************************************************************)
EXTENDS Integers, Sequences, FiniteSets, TLC

(***************************************************************************)
(* Bounds of the model.                                                    *)
(***************************************************************************)
\* largest integer a caller of the store API stores (StoreSpec)
MaxNum == 1
\* rows of media_hashes.csv seen by the OCR stage
NRows == 2
\* items of underreported_media.json seen by the social stage
NItems == 1
\* orchestrator runs started against the same state document
MaxRuns == 2

(***************************************************************************)
(* Python values that the state document holds, and their JSON text.       *)
(* A Python value is a pair <<type, payload>>; a JSON token is a string.   *)
(***************************************************************************)
PyTrue == <<"bool", 1>>
PyFalse == <<"bool", 0>>
PyNone == <<"none", 0>>
PyInt(n) == <<"int", n>>

\* decimal rendering of the small non-negative integers
NumStr == <<"0", "1", "2", "3", "4", "5", "6", "7", "8", "9">>

\* json.dump of one value
EncodeValue(v) ==
    IF v[1] = "bool" THEN (IF v[2] = 1 THEN "true" ELSE "false")
    ELSE IF v[1] = "none" THEN "null"
    ELSE NumStr[v[2] + 1]

\* json.load of one token
DecodeToken(t) ==
    IF t = "true" THEN PyTrue
    ELSE IF t = "false" THEN PyFalse
    ELSE IF t = "null" THEN PyNone
    ELSE PyInt((CHOOSE i \in 1..Len(NumStr) : NumStr[i] = t) - 1)

\* Python truthiness, as used by `if completed:`
Truthy(v) == (v[1] = "bool" /\ v[2] = 1) \/ (v[1] = "int" /\ v[2] # 0)

(***************************************************************************)
(* A Python dict is an insertion-ordered sequence of <<key, value>> pairs  *)
(* with pairwise distinct keys.                                            *)
(***************************************************************************)
HasKey(d, k) == \E i \in 1..Len(d) : d[i][1] = k

\* d.get(k, default)
DictGet(d, k, default) ==
    IF HasKey(d, k) THEN d[CHOOSE i \in 1..Len(d) : d[i][1] = k][2] ELSE default

\* mutant: every assignment appends a new pair
DictSet_Append(d, k, v) == Append(d, <<k, v>>)

\* d[k] = v : an existing key keeps its position, a new key goes last
DictSet(d, k, v) ==
    IF HasKey(d, k)
    THEN [i \in 1..Len(d) |-> IF d[i][1] = k THEN <<k, v>> ELSE d[i]]
    ELSE Append(d, <<k, v>>)

(***************************************************************************)
(* The state file data/results/state.json.                                 *)
(*   kind "absent"    : no file                                            *)
(*   kind "garbage"   : content json.load rejects (an empty or cut file)   *)
(*   kind "nonobject" : valid JSON that is not an object ([], null, 3)     *)
(*   kind "object"    : a JSON object, body = its <<key, token>> members   *)
(***************************************************************************)
Absent == [kind |-> "absent", body |-> <<>>]
Garbage == [kind |-> "garbage", body |-> <<>>]
NonObject == [kind |-> "nonobject", body |-> <<>>]
ObjectFile(body) == [kind |-> "object", body |-> body]

\* json.load of an object: members in order, a repeated key takes the last value
RECURSIVE ParseObject(_)
ParseObject(body) ==
    IF body = <<>> THEN <<>>
    ELSE LET n == Len(body)
         IN DictSet(ParseObject(SubSeq(body, 1, n - 1)), body[n][1], DecodeToken(body[n][2]))

\* json.dump of a dict
DumpObject(d) == [i \in 1..Len(d) |-> <<d[i][1], EncodeValue(d[i][2])>>]

\* load_state(): what the caller gets; t = "dict" or "other" (list, None, number)
LoadState(f) ==
    IF f.kind = "object" THEN [t |-> "dict", d |-> ParseObject(f.body)]
    ELSE IF f.kind = "nonobject" THEN [t |-> "other", d |-> <<>>]
    ELSE [t |-> "dict", d |-> <<>>]

\* mutant: the rewritten document holds the given key only
SaveState_OnlyKey(d) == ObjectFile(DumpObject(SubSeq(d, Len(d), Len(d))))

\* save_state(state), once the rewrite is complete
SaveState(d) == ObjectFile(DumpObject(d))

\* get(key, default): [raised, val]
Get(f, key, default) ==
    LET s == LoadState(f)
    IN IF s.t = "dict"
       THEN [raised |-> FALSE, val |-> DictGet(s.d, key, default)]
       ELSE [raised |-> TRUE, val |-> PyNone]

\* mutant: the dict starts empty instead of being loaded from the file
SetPrepare_Fresh(f, key, value) == [raised |-> FALSE, d |-> <<<<key, value>>>>]

\* set_, lines `s = load_state(); s[key] = value`: [raised, d]
SetPrepare(f, key, value) ==
    LET s == LoadState(f)
    IN IF s.t = "dict"
       THEN [raised |-> FALSE, d |-> DictSet(s.d, key, value)]
       ELSE [raised |-> TRUE, d |-> <<>>]

\* the file right after open(STATE_PATH, 'w') and before the dump is flushed
Truncated == Garbage

\* set_(key, value) run to its end: [raised, file]
SetDoc(f, key, value) ==
    LET p == SetPrepare(f, key, value)
    IN IF p.raised
       THEN [raised |-> TRUE, file |-> f]
       ELSE [raised |-> FALSE, file |-> SaveState(p.d)]

(***************************************************************************)
(* run_pipeline.py: the stage list and the decisions of main().            *)
(***************************************************************************)
STEPS == <<"fetch", "download", "hash", "ocr", "social", "filter", "db">>

NSteps == Len(STEPS)

StageOf(name) == CHOOSE i \in 1..NSteps : STEPS[i] = name

\* f'step_{name}'
StepKey(i) == "step_" \o STEPS[i]

\* mutant: the completion flag is ignored
ShouldSkip_Never(completed) == FALSE

\* `if completed: continue`
ShouldSkip(completed) == Truthy(completed)

\* mutant: a failed stage is treated like a successful one
ContinueAfter_Always(ok) == TRUE

\* `if not ok: return` : does main() go on to set_ after run_step?
ContinueAfter(ok) == ok

\* mutant: the flag written after a success is False
MarkValue_False == PyFalse

\* the value main() stores under step_<name>
MarkValue == PyTrue

\* mutant: the loop steps over a stage
NextStage_SkipOne(i) == IF i + 2 <= NSteps THEN i + 2 ELSE i + 1

\* the for loop of main(): the stage after stage i
NextStage(i) == i + 1

\* the stages run by a script that keeps a cursor in the state document
OcrStage == StageOf("ocr")

SocialStage == StageOf("social")

HashStage == StageOf("hash")

PlainStages == (1..NSteps) \ {OcrStage, SocialStage}

(***************************************************************************)
(* State.                                                                  *)
(***************************************************************************)
VARIABLES
    file,       \* data/results/state.json
    hashCsv,    \* data/manifests/media_hashes.csv exists
    results,    \* data/results/underreported_media.json: "absent", "ok", "cut"
    hasImg,     \* row -> the row's local_path names an existing image
    pc,         \* position of run_pipeline.main
    si,         \* the stage main() is at
    spc,        \* position of the stage script run by run_step
    idx,        \* loop variable of the stage script
    pending,    \* the dict a save_state in progress is writing
    runs,       \* history: runs started
    calls,      \* history: stages whose executor this run invoked, in order
    readTrue,   \* history: stages whose key read true when this run reached them
    okCount,    \* history: stage -> its executor returned success 0, 1 or 2 = several times
    failedAt,   \* history: the stage whose executor failed in this run, or 0
    failSnap,   \* history: the state file when that executor returned
    startFile,  \* history: the state file when this run started
    initFile,   \* history: the state file before the first run
    ocrPrev,    \* history: rows OCR-ed by earlier executions of the OCR script
    ocrCur,     \* history: rows OCR-ed by its current (latest) execution
    socPrev,    \* history: items checked by earlier executions of the social script
    socCur,     \* history: items checked by its current (latest) execution
    lastOp,     \* history: the last call of the store API (StoreSpec)
    writers,    \* the two processes of WriterSpec, or Off
    ham,        \* the call of hamming of HammingSpec, or Off
    clu,        \* the run of 09_cluster_duplicates.main of ClusterSpec, or Off
    flt,        \* the call of filter_underreported_candidates of FilterSpec, or Off
    sco,        \* the calls of compute_interest_score of ScoreSpec, or Off
    job         \* a stage script run on its own (OcrTextSpec, SocialItemSpec), or Off

vars == <<file, hashCsv, results, hasImg, pc, si, spc, idx, pending, runs, calls,
          readTrue, okCount, failedAt, failSnap, startFile, initFile,
          ocrPrev, ocrCur, socPrev, socCur, lastOp,
          writers, ham, clu, flt, sco, job>>

\* the variables of the other specifications of this module
aux == <<writers, ham, clu, flt, sco, job>>

\* the value of such a variable in a specification that does not use it
Off == "off"

\* writer -> position of its call of set_
wpc == writers.pc

\* writer -> the dict s of its call of set_
wmem == writers.mem

\* writer -> <<key, value>> of its call
wcall == writers.call

\* history: a call loaded the file while another call was between load and return
overlapped == writers.overlapped

\* the arguments <<a, b>> of hamming
hin == ham.args

\* what hamming returned for them
hout == ham.out

\* 09_cluster_duplicates.main: the rows of media_hashes.csv
rows == clu.rows

\* its position
cpc == clu.pc

\* its loop variable i, counted from 1
ci == clu.i

\* its loop variable j, counted from 1
cj == clu.j

\* its list cluster
cluster == clu.cluster

\* its set used
used == clu.used

\* its list clusters
clusters == clu.clusters

dataVars == <<hashCsv, results, hasImg>>

workVars == <<ocrPrev, ocrCur, socPrev, socCur>>

runHist == <<runs, calls, readTrue, startFile, initFile>>

failHist == <<failedAt, failSnap>>

NoOp == [op |-> "none", key |-> "", val |-> PyNone, raised |-> FALSE, ret |-> PyNone,
         before |-> Absent, rep |-> FALSE]

\* state documents an orchestrator run may find
InitFiles ==
    { Absent, Garbage, NonObject,
      ObjectFile(<< <<"step_fetch", "1">>, <<"step_download", "true">>, <<"step_hash", "true">> >>) }

\* the data directory before the first run: empty, or left by earlier manual runs
\* of scripts/03_hash_media.py and scripts/04_check_social_presence.py
DataDirs == { <<FALSE, "absent">>, <<TRUE, "ok">> }

\* which rows of the CSV name an image that exists: all, or all but the first
ImgPatterns == { [i \in 1..NRows |-> TRUE], [i \in 1..NRows |-> i # 1] }

\* the two processes that call set_ in WriterSpec
Writers == {1, 2}

\* hamming has not been called
NoCall == LET none == [raised |-> FALSE, val |-> 0]
          IN [called |-> FALSE, ab |-> none, ba |-> none, aa |-> none]

\* the other specifications are at rest
AuxQuiet ==
    writers = Off /\ ham = Off /\ clu = Off /\ flt = Off /\ sco = Off /\ job = Off

\* no run has started, no script is running, nothing has been recorded
Quiet ==
    /\ pc = "idle"
    /\ si = 1
    /\ spc = "none"
    /\ idx = 0
    /\ pending = <<>>
    /\ runs = 0
    /\ calls = <<>>
    /\ readTrue = {}
    /\ okCount = [i \in 1..NSteps |-> 0]
    /\ failedAt = 0
    /\ failSnap = Absent
    /\ startFile = Absent
    /\ initFile = file
    /\ ocrPrev = {}
    /\ ocrCur = {}
    /\ socPrev = {}
    /\ socCur = {}
    /\ lastOp = NoOp

Init ==
    /\ file \in InitFiles
    /\ \E dd \in DataDirs : hashCsv = dd[1] /\ results = dd[2]
    /\ hasImg \in ImgPatterns
    /\ Quiet
    /\ AuxQuiet

(***************************************************************************)
(* run_pipeline.main                                                       *)
(***************************************************************************)
Running == pc \in {"check", "exec", "mark", "mark_write"}

\* a new process runs main() from the top
StartRun ==
    /\ ~Running
    /\ runs < MaxRuns
    /\ runs' = runs + 1
    /\ pc' = "check"
    /\ si' = 1
    /\ calls' = <<>>
    /\ readTrue' = {}
    /\ failedAt' = 0
    /\ failSnap' = Absent
    /\ startFile' = file
    /\ UNCHANGED <<file, dataVars, spc, idx, pending, okCount, initFile, workVars, lastOp, aux>>

\* the loop goes to the stage after si, or main() prints "Pipeline complete"
Advance ==
    IF NextStage(si) > NSteps
    THEN pc' = "done" /\ si' = si
    ELSE pc' = "check" /\ si' = NextStage(si)

\* lines 26-31: completed = get(...); skip, or start the executor
CheckStep ==
    /\ pc = "check"
    /\ LET r == Get(file, StepKey(si), PyFalse)
       IN IF r.raised
          THEN /\ pc' = "crashed"
               /\ UNCHANGED <<si, spc, calls, readTrue, workVars>>
          ELSE /\ readTrue' = IF Truthy(r.val) THEN readTrue \cup {si} ELSE readTrue
               /\ IF ShouldSkip(r.val)
                  THEN /\ Advance
                       /\ UNCHANGED <<spc, calls, workVars>>
                  ELSE /\ pc' = "exec"
                       /\ si' = si
                       /\ calls' = Append(calls, si)
                       /\ spc' = IF si \in PlainStages THEN "run" ELSE "start"
                       /\ ocrPrev' = IF si = OcrStage THEN ocrPrev \cup ocrCur ELSE ocrPrev
                       /\ ocrCur' = IF si = OcrStage THEN {} ELSE ocrCur
                       /\ socPrev' = IF si = SocialStage THEN socPrev \cup socCur ELSE socPrev
                       /\ socCur' = IF si = SocialStage THEN {} ELSE socCur
    /\ UNCHANGED <<file, dataVars, idx, pending, runs, okCount, failHist, startFile,
                   initFile, lastOp, aux>>

\* run_step returned ok; lines 32-36 up to the call of set_
Returned(ok) ==
    /\ okCount' = IF ok THEN [okCount EXCEPT ![si] = IF @ = 0 THEN 1 ELSE 2] ELSE okCount
    /\ failedAt' = IF ok THEN failedAt ELSE si
    /\ failSnap' = IF ok THEN failSnap ELSE file
    /\ pc' = IF ContinueAfter(ok) THEN "mark" ELSE "aborted"
    /\ spc' = "none"
    /\ idx' = 0
    /\ UNCHANGED <<file, si, pending, runs, calls, readTrue, startFile, initFile, lastOp, aux>>

\* the executor of a stage without cursor ends with exit status 0 or not
PlainExec(ok) ==
    /\ pc = "exec"
    /\ si \in PlainStages
    /\ Returned(ok)
    /\ hashCsv' = IF ok /\ si = HashStage THEN TRUE ELSE hashCsv
    /\ UNCHANGED <<results, hasImg, workVars>>

\* line 36, set_: load, assign, open the file for writing
MarkBegin ==
    /\ pc = "mark"
    /\ LET p == SetPrepare(file, StepKey(si), MarkValue)
       IN IF p.raised
          THEN pc' = "crashed" /\ UNCHANGED <<file, pending>>
          ELSE pc' = "mark_write" /\ pending' = p.d /\ file' = Truncated
    /\ UNCHANGED <<dataVars, si, spc, idx, runs, calls, readTrue, okCount, failHist,
                   startFile, initFile, workVars, lastOp, aux>>

\* line 36, set_: the dump reaches the file; the loop goes on
MarkEnd ==
    /\ pc = "mark_write"
    /\ file' = SaveState(pending)
    /\ pending' = <<>>
    /\ Advance
    /\ UNCHANGED <<dataVars, spc, idx, runs, calls, readTrue, okCount, failHist,
                   startFile, initFile, workVars, lastOp, aux>>

\* the process (and the stage script it waits for) is terminated from outside
Kill ==
    /\ Running
    /\ pc' = "killed"
    /\ spc' = "none"
    /\ idx' = 0
    /\ pending' = <<>>
    /\ si' = 1
    /\ calls' = <<>>
    /\ readTrue' = {}
    /\ startFile' = Absent
    /\ UNCHANGED <<file, dataVars, runs, okCount, failHist, initFile, workVars, lastOp, aux>>

(***************************************************************************)
(* scripts/08_run_ocr.py, run as the executor of stage "ocr"               *)
(***************************************************************************)
InScript(stage, at) == pc = "exec" /\ si = stage /\ spc = at

scriptFrame == <<si, runs, calls, readTrue, okCount, failHist, startFile, initFile, lastOp, aux>>

\* lines 36-45: no CSV: return; else load the rows and read the cursor
OcrStart ==
    /\ InScript(OcrStage, "start")
    /\ IF ~hashCsv
       THEN Returned(TRUE)
       ELSE LET r == Get(file, "ocr_index", PyInt(0))
            IN IF r.raised
               THEN Returned(FALSE)
               ELSE /\ spc' = "loop"
                    /\ idx' = r.val[2]
                    /\ UNCHANGED <<pc, pending, file, scriptFrame>>
    /\ UNCHANGED <<dataVars, workVars>>

\* lines 49-52: a row without image gets its snippet; the cursor is not written
OcrRowNoImage ==
    /\ InScript(OcrStage, "loop")
    /\ idx < NRows
    /\ ~hasImg[idx + 1]
    /\ idx' = idx + 1
    /\ UNCHANGED <<file, dataVars, pc, spc, pending, scriptFrame, workVars>>

\* lines 54-58: the row is OCR-ed (one unit of work)
OcrRowWork ==
    /\ InScript(OcrStage, "loop")
    /\ idx < NRows
    /\ hasImg[idx + 1]
    /\ ocrCur' = ocrCur \cup {idx}
    /\ spc' = "set"
    /\ UNCHANGED <<file, dataVars, pc, idx, pending, scriptFrame, ocrPrev, socPrev, socCur>>

\* line 60, set_('ocr_index', idx+1): load, assign, open the file for writing
OcrSetBegin ==
    /\ InScript(OcrStage, "set")
    /\ LET p == SetPrepare(file, "ocr_index", PyInt(idx + 1))
       IN IF p.raised
          THEN Returned(FALSE)
          ELSE /\ pending' = p.d
               /\ file' = Truncated
               /\ spc' = "set_write"
               /\ UNCHANGED <<pc, idx, scriptFrame>>
    /\ UNCHANGED <<dataVars, workVars>>

\* line 60, set_: the dump reaches the file; next row
OcrSetEnd ==
    /\ InScript(OcrStage, "set_write")
    /\ file' = SaveState(pending)
    /\ pending' = <<>>
    /\ idx' = idx + 1
    /\ spc' = "loop"
    /\ UNCHANGED <<dataVars, pc, scriptFrame, workVars>>

\* lines 62-73: the CSV is written back and the script ends with status 0
OcrFinish ==
    /\ InScript(OcrStage, "loop")
    /\ idx >= NRows
    /\ Returned(TRUE)
    /\ UNCHANGED <<dataVars, workVars>>

(***************************************************************************)
(* scripts/10_finish_social_checks.py, run as the executor of "social"     *)
(***************************************************************************)
\* lines 22-30: no results file: return; else load the items and read the cursor
SocialStart ==
    /\ InScript(SocialStage, "start")
    /\ IF results = "absent"
       THEN Returned(TRUE)
       ELSE IF results = "cut"
       THEN Returned(FALSE)
       ELSE LET r == Get(file, "social_index", PyInt(0))
            IN IF r.raised
               THEN Returned(FALSE)
               ELSE /\ spc' = "loop"
                    /\ idx' = r.val[2]
                    /\ UNCHANGED <<pc, pending, file, scriptFrame>>
    /\ UNCHANGED <<dataVars, workVars>>

\* lines 37-42: the three lookups of the item succeed (one unit of work)
SocialCheckOk ==
    /\ InScript(SocialStage, "loop")
    /\ idx < NItems
    /\ socCur' = socCur \cup {idx}
    /\ spc' = "res"
    /\ UNCHANGED <<file, dataVars, pc, idx, pending, scriptFrame, ocrPrev, ocrCur, socPrev>>

\* lines 50-52: the check raises; the error is logged and the loop goes on
SocialCheckRaise ==
    /\ InScript(SocialStage, "loop")
    /\ idx < NItems
    /\ idx' = idx + 1
    /\ UNCHANGED <<file, dataVars, pc, spc, pending, scriptFrame, workVars>>

\* line 45: open(RESULTS_JSON, 'w')
SocialWriteBegin ==
    /\ InScript(SocialStage, "res")
    /\ results' = "cut"
    /\ spc' = "res_write"
    /\ UNCHANGED <<file, hashCsv, hasImg, pc, idx, pending, scriptFrame, workVars>>

\* line 46: json.dump(items, f)
SocialWriteEnd ==
    /\ InScript(SocialStage, "res_write")
    /\ results' = "ok"
    /\ spc' = "set"
    /\ UNCHANGED <<file, hashCsv, hasImg, pc, idx, pending, scriptFrame, workVars>>

\* line 48, set_('social_index', idx+1): load, assign, open the file for writing
SocialSetBegin ==
    /\ InScript(SocialStage, "set")
    /\ LET p == SetPrepare(file, "social_index", PyInt(idx + 1))
       IN IF p.raised
          THEN /\ idx' = idx + 1
               /\ spc' = "loop"
               /\ UNCHANGED <<pc, file, pending, scriptFrame>>
          ELSE /\ pending' = p.d
               /\ file' = Truncated
               /\ spc' = "set_write"
               /\ UNCHANGED <<pc, idx, scriptFrame>>
    /\ UNCHANGED <<dataVars, workVars>>

\* line 48, set_: the dump reaches the file; next item
SocialSetEnd ==
    /\ InScript(SocialStage, "set_write")
    /\ file' = SaveState(pending)
    /\ pending' = <<>>
    /\ idx' = idx + 1
    /\ spc' = "loop"
    /\ UNCHANGED <<dataVars, pc, scriptFrame, workVars>>

\* line 54: the loop is over and the script ends with status 0
SocialFinish ==
    /\ InScript(SocialStage, "loop")
    /\ idx >= NItems
    /\ Returned(TRUE)
    /\ UNCHANGED <<dataVars, workVars>>

\* a stage script dies between two rows (uncaught error, signal): status # 0
ScriptDies ==
    /\ pc = "exec"
    /\ si \notin PlainStages
    /\ spc = "loop"
    /\ Returned(FALSE)
    /\ UNCHANGED <<dataVars, workVars>>

Next ==
    \/ StartRun
    \/ CheckStep
    \/ \E ok \in BOOLEAN : PlainExec(ok)
    \/ MarkBegin
    \/ MarkEnd
    \/ Kill
    \/ OcrStart
    \/ OcrRowNoImage
    \/ OcrRowWork
    \/ OcrSetBegin
    \/ OcrSetEnd
    \/ OcrFinish
    \/ SocialStart
    \/ SocialCheckOk
    \/ SocialCheckRaise
    \/ SocialWriteBegin
    \/ SocialWriteEnd
    \/ SocialSetBegin
    \/ SocialSetEnd
    \/ SocialFinish
    \/ ScriptDies

Spec == Init /\ [][Next]_vars

(***************************************************************************)
(* run_pipeline.py re-run without end, and never terminated from outside:  *)
(* the operator starts main() again whenever no run is going on.  A stage  *)
(* script may fail, but not for ever: executors fail in the first runs     *)
(* only, and report success from run MaxRuns on.                           *)
(***************************************************************************)
\* a new process runs main() from the top; the count of the runs stops at MaxRuns
Rerun ==
    /\ ~Running
    /\ runs' = IF runs < MaxRuns THEN runs + 1 ELSE runs
    /\ pc' = "check"
    /\ si' = 1
    /\ calls' = <<>>
    /\ readTrue' = {}
    /\ failedAt' = 0
    /\ failSnap' = Absent
    /\ startFile' = file
    /\ UNCHANGED <<file, dataVars, spc, idx, pending, okCount, initFile, workVars, lastOp, aux>>

\* executors still fail in this run
MayFail == runs < MaxRuns

\* the executor of a stage without cursor ends with a status other than 0
ExecFails == MayFail /\ PlainExec(FALSE)

\* a stage script dies between two rows
ScriptFails == MayFail /\ ScriptDies

NextLive ==
    \/ Rerun
    \/ CheckStep
    \/ PlainExec(TRUE)
    \/ ExecFails
    \/ MarkBegin
    \/ MarkEnd
    \/ OcrStart
    \/ OcrRowNoImage
    \/ OcrRowWork
    \/ OcrSetBegin
    \/ OcrSetEnd
    \/ OcrFinish
    \/ SocialStart
    \/ SocialCheckOk
    \/ SocialCheckRaise
    \/ SocialWriteBegin
    \/ SocialWriteEnd
    \/ SocialSetBegin
    \/ SocialSetEnd
    \/ SocialFinish
    \/ ScriptFails

\* no process stops for ever: a run that has started goes on to its end, and
\* the operator runs main() again after it
Fairness == WF_vars(NextLive)

LiveSpec == Init /\ [][NextLive]_vars /\ Fairness

(***************************************************************************)
(* The store API on its own: any caller, any sequence of get and set_.     *)
(***************************************************************************)
\* the keys the callers read and write
StoreKeys == {"step_fetch", "ocr_index"}

\* every key a document of the model holds
AllKeys == StoreKeys \cup {"note"}

StoreVals == {PyTrue, PyFalse} \cup {PyInt(n) : n \in 0..MaxNum}

\* the defaults the callers pass: None, False, 0
Defaults == {PyNone, PyFalse, PyInt(0)}

\* state documents a caller of the API may find, one of them with a repeated key
StoreInitFiles ==
    { Absent, Garbage, NonObject, ObjectFile(<<>>),
      ObjectFile(<< <<"step_fetch", "true">>, <<"ocr_index", "1">> >>),
      ObjectFile(<< <<"note", "1">>, <<"step_fetch", "false">>, <<"note", "null">> >>) }

InitStore ==
    /\ file \in StoreInitFiles
    /\ hashCsv = FALSE
    /\ results = "absent"
    /\ hasImg = [i \in 1..NRows |-> TRUE]
    /\ Quiet
    /\ AuxQuiet

storeFrame == <<hashCsv, results, hasImg, pc, si, spc, idx, pending, runs, calls,
                readTrue, okCount, failedAt, failSnap, startFile, initFile,
                ocrPrev, ocrCur, socPrev, socCur, aux>>

\* a call get(k, d)
StoreGet(k, d) ==
    /\ LET r == Get(file, k, d)
       IN lastOp' = [op |-> "get", key |-> k, val |-> d, raised |-> r.raised,
                     ret |-> r.val, before |-> file, rep |-> FALSE]
    /\ UNCHANGED <<file, storeFrame>>

\* a call set_(k, v), run to its end
StoreSet(k, v) ==
    /\ LET r == SetDoc(file, k, v)
       IN /\ file' = r.file
          /\ lastOp' = [op |-> "set", key |-> k, val |-> v, raised |-> r.raised,
                        ret |-> PyNone, before |-> file,
                        rep |-> (lastOp.op = "set" /\ lastOp.key = k /\ lastOp.val = v)]
    /\ UNCHANGED storeFrame

NextStore ==
    \/ \E k \in StoreKeys, d \in Defaults : StoreGet(k, d)
    \/ \E k \in StoreKeys, v \in StoreVals : StoreSet(k, v)

StoreSpec == InitStore /\ [][NextStore]_vars

(***************************************************************************)
(* Two processes calling set_ on the same state file, without locking.     *)
(* A call is three steps: load_state and the assignment, open(.., 'w'),    *)
(* json.dump and close.                                                    *)
(***************************************************************************)
\* everything of the orchestrator but the state file
orchVars == <<hashCsv, results, hasImg, pc, si, spc, idx, pending, runs, calls,
              readTrue, okCount, failedAt, failSnap, startFile, initFile,
              ocrPrev, ocrCur, socPrev, socCur, lastOp>>

\* no data directory, no orchestrator
NoPipeline ==
    /\ hashCsv = FALSE
    /\ results = "absent"
    /\ hasImg = [i \in 1..NRows |-> TRUE]
    /\ Quiet

\* no writer has called set_
InitWriters ==
    /\ file \in StoreInitFiles
    /\ NoPipeline
    /\ writers = [pc |-> [w \in Writers |-> "idle"],
                  mem |-> [w \in Writers |-> <<>>],
                  call |-> [w \in Writers |-> <<"", PyNone>>],
                  overlapped |-> FALSE]
    /\ ham = Off
    /\ clu = Off
    /\ flt = Off
    /\ sco = Off
    /\ job = Off

\* what a call of set_ leaves alone
writerFrame == <<orchVars, ham, clu, flt, sco, job>>

\* writer w enters set_(k, v): s = load_state(); s[key] = value
WLoad(w, k, v) ==
    /\ wpc[w] = "idle"
    /\ LET p == SetPrepare(file, k, v)
       IN writers' = [pc |-> [wpc EXCEPT ![w] = IF p.raised THEN "raised" ELSE "loaded"],
                      mem |-> [wmem EXCEPT ![w] = p.d],
                      call |-> [wcall EXCEPT ![w] = <<k, v>>],
                      overlapped |->
                          (overlapped \/ \E o \in Writers \ {w} : wpc[o] \in {"loaded", "opened"})]
    /\ UNCHANGED <<file, writerFrame>>

\* save_state: open(STATE_PATH, 'w') empties the file
WOpen(w) ==
    /\ wpc[w] = "loaded"
    /\ file' = Truncated
    /\ writers' = [writers EXCEPT !.pc[w] = "opened"]
    /\ UNCHANGED writerFrame

\* save_state: json.dump and close write the text from offset 0.  When the
\* other writer has written since this one opened the file, the tail of the
\* other text stays if it is the longer one, and the content is no JSON.
WDump(w) ==
    /\ wpc[w] = "opened"
    /\ file' \in (IF file = Truncated
                  THEN {SaveState(wmem[w])}
                  ELSE {SaveState(wmem[w]), Garbage})
    /\ writers' = [writers EXCEPT !.pc[w] = "returned"]
    /\ UNCHANGED writerFrame

NextWriters ==
    \/ \E w \in Writers, k \in StoreKeys, v \in StoreVals : WLoad(w, k, v)
    \/ \E w \in Writers : WOpen(w)
    \/ \E w \in Writers : WDump(w)

WriterSpec == InitWriters /\ [][NextWriters]_vars

(***************************************************************************)
(* scripts/09_cluster_duplicates.py: hamming.  A hash is the sequence of   *)
(* the characters of the phash field; int(x, 16) is kept in binary, of any *)
(* length, as Python keeps it.                                             *)
(***************************************************************************)
\* n times the character c
Rep(c, n) == [i \in 1..n |-> c]

\* the digits of a hash as imagehash prints it
HexDigits == <<"0", "1", "2", "3", "4", "5", "6", "7", "8", "9", "a", "b", "c", "d", "e", "f">>

HexVal(c) == (CHOOSE i \in 1..Len(HexDigits) : HexDigits[i] = c) - 1

\* int(x, 16) accepts the text (signs, prefixes and blanks are not modelled)
IsHex(x) == \A i \in 1..Len(x) : \E k \in 1..Len(HexDigits) : HexDigits[k] = x[i]

\* the four bits of a digit, most significant first
DigitBits(c) == LET v == HexVal(c) IN <<v \div 8, (v \div 4) % 2, (v \div 2) % 2, v % 2>>

\* int(str(x), 16), most significant bit first
RECURSIVE HexBits(_)
HexBits(x) == IF x = <<>> THEN <<>> ELSE DigitBits(Head(x)) \o HexBits(Tail(x))

\* bit k of an integer, k = 1 the least significant
BitAt(n, k) == IF k <= Len(n) THEN n[Len(n) + 1 - k] ELSE 0

Longer(n, m) == IF Len(n) >= Len(m) THEN Len(n) ELSE Len(m)

\* ha ^ hb, least significant bit first
Xor(n, m) == [k \in 1..Longer(n, m) |-> IF BitAt(n, k) = BitAt(m, k) THEN 0 ELSE 1]

\* x.bit_count()
BitCount(x) == Cardinality({k \in 1..Len(x) : x[k] = 1})

\* the distance returned for an empty hash
Sentinel == 999

\* mutant: counts the bits set in a and clear in b
hamming_OneSided(a, b) ==
    IF a = <<>> \/ b = <<>> THEN [raised |-> FALSE, val |-> Sentinel]
    ELSE IF ~IsHex(a) \/ ~IsHex(b) THEN [raised |-> TRUE, val |-> 0]
    ELSE LET n == HexBits(a)
             m == HexBits(b)
         IN [raised |-> FALSE,
             val |-> Cardinality({k \in 1..Longer(n, m) : BitAt(n, k) = 1 /\ BitAt(m, k) = 0})]

\* hamming(a, b): [raised, val]; int() raises ValueError on a text that is not hex
hamming(a, b) ==
    IF a = <<>> \/ b = <<>> THEN [raised |-> FALSE, val |-> Sentinel]
    ELSE IF ~IsHex(a) \/ ~IsHex(b) THEN [raised |-> TRUE, val |-> 0]
    ELSE [raised |-> FALSE, val |-> BitCount(Xor(HexBits(a), HexBits(b)))]

\* the hash of the example, ffff0000ffff0000
HA == Rep("f", 4) \o Rep("0", 4) \o Rep("f", 4) \o Rep("0", 4)

\* 00ff0000ffff0000: 8 bits from HA
HB == Rep("0", 2) \o Rep("f", 2) \o Rep("0", 4) \o Rep("f", 4) \o Rep("0", 4)

\* ffff0000ffff00ff: 8 bits from HA, 16 from HB
HC == Rep("f", 4) \o Rep("0", 4) \o Rep("f", 4) \o Rep("0", 2) \o Rep("f", 2)

\* 0000f000ffff0000: 20 bits from HA
HD == Rep("0", 4) \o <<"f">> \o Rep("0", 3) \o Rep("f", 4) \o Rep("0", 4)

\* the empty field media_processor.compute_image_hashes writes on an error
HE == <<>>

\* a field that is no hash
HZ == <<"n", "o", "n", "e">>

\* fffe0000ffff0000: 1 bit from HA
HF == Rep("f", 3) \o <<"e">> \o Rep("0", 4) \o Rep("f", 4) \o Rep("0", 4)

\* a short hash, ff
HS == Rep("f", 2)

HashPool == {HA, HB, HC, HD, HE, HZ, HF, HS}

\* everything but the state file and the hamming variables
hammingFrame == <<orchVars, writers, clu, flt, sco, job>>

InitHamming ==
    /\ ham \in [args : HashPool \X HashPool, out : {NoCall}]
    /\ file = Absent
    /\ NoPipeline
    /\ writers = Off
    /\ clu = Off
    /\ flt = Off
    /\ sco = Off
    /\ job = Off

\* hamming is applied to the pair, both ways round, and to a with itself
HammingCall ==
    /\ ~hout.called
    /\ ham' = [ham EXCEPT !.out = [called |-> TRUE,
                                   ab |-> hamming(hin[1], hin[2]),
                                   ba |-> hamming(hin[2], hin[1]),
                                   aa |-> hamming(hin[1], hin[1])]]
    /\ UNCHANGED <<file, hammingFrame>>

NextHamming == HammingCall

HammingSpec == InitHamming /\ [][NextHamming]_vars

(***************************************************************************)
(* scripts/09_cluster_duplicates.py: main, the loops of lines 45-60.       *)
(* The rows are those of media_hashes.csv; 03_hash_media.py writes one row *)
(* per image file, so the local_path of a row is its own.                  *)
(***************************************************************************)
\* most rows of a CSV in the model
MaxRecs == 4

\* `threshold = 10`
threshold == 10

\* the phash fields of the rows
ClusterHashes == {HA, HB, HC, HD, HE, HZ}

\* list(csv.DictReader(csvfile)): row i has the local_path i
RowsOf(hs) == [i \in 1..Len(hs) |-> [local_path |-> i, phash |-> hs[i]]]

InputRows == UNION { {RowsOf(hs) : hs \in [1..n -> ClusterHashes]} : n \in 0..MaxRecs }

\* mutant: a row is compared with the member absorbed last
Absorbs_Last(cl, s) ==
    LET d == hamming(cl[Len(cl)].phash, s.phash)
    IN [raised |-> d.raised, yes |-> d.val <= threshold]

\* d = hamming(r.get('phash',''), s.get('phash','')); d <= threshold, r = cluster[0]
Absorbs(cl, s) ==
    LET d == hamming(cl[1].phash, s.phash)
    IN [raised |-> d.raised, yes |-> d.val <= threshold]

\* mutant: the scan starts one row late
InnerStart_Late(i) == i + 2

\* range(i+1, len(rows)), with rows counted from 1
InnerStart(i) == i + 1

\* mutant: the row is not marked
Mark_Nothing(u, r) == u

\* `used.add(r['local_path'])`
Mark(u, r) == u \cup {r.local_path}

\* everything but the clusterer
clusterFrame == <<file, orchVars, writers, ham, flt, sco, job>>

InitCluster ==
    /\ \E rs \in InputRows :
           clu = [rows |-> rs, pc |-> "outer", i |-> 1, j |-> 0,
                  cluster |-> <<>>, used |-> {}, clusters |-> <<>>]
    /\ file = Absent
    /\ NoPipeline
    /\ writers = Off
    /\ ham = Off
    /\ flt = Off
    /\ sco = Off
    /\ job = Off

\* `if r['local_path'] in used: continue`
OuterSkip ==
    /\ cpc = "outer"
    /\ ci <= Len(rows)
    /\ rows[ci].local_path \in used
    /\ clu' = [clu EXCEPT !.i = ci + 1]
    /\ UNCHANGED clusterFrame

\* `cluster = [r]; used.add(r['local_path'])` and the inner loop starts
OuterSeed ==
    /\ cpc = "outer"
    /\ ci <= Len(rows)
    /\ rows[ci].local_path \notin used
    /\ clu' = [clu EXCEPT !.cluster = <<rows[ci]>>,
                          !.used = Mark(used, rows[ci]),
                          !.j = InnerStart(ci),
                          !.pc = "inner"]
    /\ UNCHANGED clusterFrame

\* `if s['local_path'] in used: continue`
InnerSkip ==
    /\ cpc = "inner"
    /\ cj <= Len(rows)
    /\ rows[cj].local_path \in used
    /\ clu' = [clu EXCEPT !.j = cj + 1]
    /\ UNCHANGED clusterFrame

\* lines 54-57: the row is compared with the seed; a ValueError of hamming
\* leaves main()
InnerCompare ==
    /\ cpc = "inner"
    /\ cj <= Len(rows)
    /\ rows[cj].local_path \notin used
    /\ LET a == Absorbs(cluster, rows[cj])
       IN clu' = IF a.raised THEN [clu EXCEPT !.pc = "raised"]
                 ELSE IF a.yes
                 THEN [clu EXCEPT !.cluster = Append(cluster, rows[cj]),
                                  !.used = Mark(used, rows[cj]),
                                  !.j = cj + 1]
                 ELSE [clu EXCEPT !.j = cj + 1]
    /\ UNCHANGED clusterFrame

\* the inner loop is over: `if len(cluster) > 1: clusters.append([...])`
InnerEnd ==
    /\ cpc = "inner"
    /\ cj > Len(rows)
    /\ clu' = [clu EXCEPT
                   !.clusters = IF Len(cluster) > 1
                                THEN Append(clusters, [k \in 1..Len(cluster) |-> cluster[k].local_path])
                                ELSE clusters,
                   !.i = ci + 1,
                   !.pc = "outer"]
    /\ UNCHANGED clusterFrame

\* the outer loop is over; clusters is dumped to duplicate_clusters.json
OuterEnd ==
    /\ cpc = "outer"
    /\ ci > Len(rows)
    /\ clu' = [clu EXCEPT !.pc = "done"]
    /\ UNCHANGED clusterFrame

NextCluster ==
    \/ OuterSkip
    \/ OuterSeed
    \/ InnerSkip
    \/ InnerCompare
    \/ InnerEnd
    \/ OuterEnd

ClusterSpec == InitCluster /\ [][NextCluster]_vars

(***************************************************************************)
(* utils/social_checker.py: compute_interest_score.  The terms of a score  *)
(* are kept in thousandths; the score returned, round(score, 2), is in     *)
(* hundredths, and so are virality_score, skin_fraction and the limits of  *)
(* the filter.                                                             *)
(***************************************************************************)
\* `keyword_weight: int = 3`
keyword_weight == 3

\* `uniqueness_weight: int = 3`
uniqueness_weight == 3

strong ==
    {"video", "photo", "flight", "payment", "bank", "phone", "escort", "model",
     "minor", "underage", "nude", "sex", "passport", "log"}

\* a record without image file at local_path
NoImage == -1

\* a record without the key _interest_score
NoScore == -1

Least(a, b) == IF a <= b THEN a ELSE b

RECURSIVE SumSeq(_)
SumSeq(q) == IF q = <<>> THEN 0 ELSE Head(q) + SumSeq(Tail(q))

\* lines 303-312; keywords_found is kept as the list kw.split(',') makes of it
KwScore(item) ==
    LET kws == SelectSeq(item.keywords_found, LAMBDA k : k # "")
    IN 1000 * SumSeq([i \in 1..Len(kws) |->
                         IF kws[i] \in strong THEN keyword_weight * 2 ELSE keyword_weight])

\* lines 315-318: the records of items with the phash of item, item included
DupCount(item, items) ==
    IF items # <<>> /\ item.phash # <<>>
    THEN Cardinality({i \in 1..Len(items) : items[i].phash = item.phash})
    ELSE 0

\* lines 320-321: uniqueness * uniqueness_weight
Uniqueness(item, items) == (1000 * uniqueness_weight) \div (1 + DupCount(item, items))

\* lines 324-336: min(3.0, stddev / 30.0) of the image, nothing without image
PhotoScore(item) ==
    IF item.stddev = NoImage THEN 0 ELSE Least(3000, (1000 * item.stddev) \div 30)

\* mutant: every face counts 0.8
FaceScore_Linear(item) == item.face_count * 800

\* lines 339-344: min(2.0, face_count * 0.8) when face_count > 0
FaceScore(item) == IF item.face_count > 0 THEN Least(2000, item.face_count * 800) ELSE 0

\* lines 347-355: likely_nsfw adds 2.0, skin_fraction > 0.20 adds 0.5
NsfwScore(item) ==
    (IF item.likely_nsfw THEN 2000 ELSE 0) + (IF item.skin_fraction > 20 THEN 500 ELSE 0)

\* lines 358-370: no reverse-search match adds 2.0, fewer than three add 1.0
NoveltyScore(item) ==
    IF item.total_rev = 0 THEN 2000 ELSE IF item.total_rev < 3 THEN 1000 ELSE 0

\* round(score, 2), from thousandths to hundredths
Round2(t) == (t + 5) \div 10

\* compute_interest_score(item, items)
compute_interest_score(item, items) ==
    Round2(KwScore(item) + Uniqueness(item, items) + PhotoScore(item)
           + FaceScore(item) + NsfwScore(item) + NoveltyScore(item))

\* a record with every signal at its neutral value
Neutral ==
    [id |-> 0, virality_score |-> 0, keywords_found |-> <<>>, phash |-> HE,
     stddev |-> NoImage, face_count |-> 0, likely_nsfw |-> FALSE, skin_fraction |-> 0,
     total_rev |-> 0, interest |-> NoScore]

\* the records of the model; the first two are those of the example
Records ==
    { [Neutral EXCEPT !.virality_score = 200, !.keywords_found = <<"nude", "passport">>],
      [Neutral EXCEPT !.virality_score = 800, !.keywords_found = <<"video">>],
      [Neutral EXCEPT !.virality_score = 100, !.phash = HA, !.total_rev = 5],
      [Neutral EXCEPT !.virality_score = 500, !.keywords_found = <<"misc">>],
      [Neutral EXCEPT !.virality_score = 100, !.phash = HA, !.stddev = 37,
                      !.face_count = 2, !.total_rev = 1],
      [Neutral EXCEPT !.virality_score = 499, !.keywords_found = <<"misc", "">>,
                      !.phash = HB, !.likely_nsfw = TRUE, !.skin_fraction = 25],
      [Neutral EXCEPT !.phash = HB] }

(***************************************************************************)
(* utils/social_checker.py: filter_underreported_candidates.               *)
(***************************************************************************)
\* most records of a list in the model
MaxItems == 3

\* a list of records: the id of a record is its place in the list
Numbered(rs) == [i \in 1..Len(rs) |-> [rs[i] EXCEPT !.id = i]]

InputLists == UNION { {Numbered(rs) : rs \in [1..n -> Records]} : n \in 0..MaxItems }

\* <<virality_threshold, min_interest>>: 07_filter_candidates.py passes 5.0 and
\* 3.0; the defaults are 5.0 and 3.5
FilterParams == { <<500, 300>>, <<500, 350>> }

\* the list handed in, as it was
input == flt.input

\* the list handed in, as it is
items == flt.items

virality_threshold == flt.virality_threshold

min_interest == flt.min_interest

\* position of the call
fpc == flt.pc

\* the place in items of the record `it` of the loop
fi == flt.i

\* the list scored
scored == flt.scored

\* mutant: a record at the threshold passes
Keeps_AtThreshold(vir, interest, vt, mi) == vir <= vt /\ interest >= mi

\* `if vir < virality_threshold and interest >= min_interest`
Keeps(vir, interest, vt, mi) == vir < vt /\ interest >= mi

\* mutant: the annotation also clears face_count
Annotated_ClearsFaces(it, interest) == [it EXCEPT !.interest = interest, !.face_count = 0]

\* `it['_interest_score'] = interest`
Annotated(it, interest) == [it EXCEPT !.interest = interest]

\* mutant: a record goes before the records of equal score
InsertDesc_Before(q, x) ==
    LET n == Cardinality({k \in 1..Len(q) : q[k].interest > x.interest})
    IN SubSeq(q, 1, n) \o <<x>> \o SubSeq(q, n + 1, Len(q))

\* a record joins a list sorted so far, after the records of equal or higher score
InsertDesc(q, x) ==
    LET n == Cardinality({k \in 1..Len(q) : q[k].interest >= x.interest})
    IN SubSeq(q, 1, n) \o <<x>> \o SubSeq(q, n + 1, Len(q))

\* sorted(scored, key=lambda x: x['_interest_score'], reverse=True): stable
RECURSIVE Sorted(_)
Sorted(q) ==
    IF q = <<>> THEN <<>>
    ELSE InsertDesc(Sorted(SubSeq(q, 1, Len(q) - 1)), q[Len(q)])

\* `'--prefer-faces' in sys.argv`
prefer_faces == flt.prefer_faces

\* the list 07_filter_candidates.py saves
candidates == flt.candidates

\* `int(x.get('face_count') or 0) > 0`
HasFaces(x) == x.face_count > 0

\* mutant: the key is the score alone
KeyGE_ScoreOnly(a, b) == a.interest >= b.interest

\* the key (face_count > 0, _interest_score) of a is not below that of b
KeyGE(a, b) ==
    \/ HasFaces(a) /\ ~HasFaces(b)
    \/ HasFaces(a) = HasFaces(b) /\ a.interest >= b.interest

\* a record joins a list sorted so far, after the records of equal or higher key
InsertFaces(q, x) ==
    LET n == Cardinality({k \in 1..Len(q) : KeyGE(q[k], x)})
    IN SubSeq(q, 1, n) \o <<x>> \o SubSeq(q, n + 1, Len(q))

\* sorted(candidates, key=lambda x: (faces, score), reverse=True): stable
RECURSIVE SortedFaces(_)
SortedFaces(q) ==
    IF q = <<>> THEN <<>>
    ELSE InsertFaces(SortedFaces(SubSeq(q, 1, Len(q) - 1)), q[Len(q)])

\* everything but the filter
filterFrame == <<file, orchVars, writers, ham, clu, sco, job>>

InitFilter ==
    /\ \E rs \in InputLists, p \in FilterParams, pf \in BOOLEAN :
           flt = [input |-> rs, items |-> rs, virality_threshold |-> p[1],
                  min_interest |-> p[2], pc |-> "loop", i |-> 1, scored |-> <<>>,
                  prefer_faces |-> pf, candidates |-> <<>>]
    /\ file = Absent
    /\ NoPipeline
    /\ writers = Off
    /\ ham = Off
    /\ clu = Off
    /\ sco = Off
    /\ job = Off

\* lines 388-395: one record is scored against the list, annotated, and kept or not
FilterStep ==
    /\ fpc = "loop"
    /\ fi <= Len(items)
    /\ LET it == items[fi]
           vir == it.virality_score
           interest == compute_interest_score(it, items)
           marked == Annotated(it, interest)
       IN flt' = [flt EXCEPT
                     !.items = [items EXCEPT ![fi] = marked],
                     !.scored = IF Keeps(vir, interest, virality_threshold, min_interest)
                                THEN Append(scored, marked)
                                ELSE scored,
                     !.i = fi + 1]
    /\ UNCHANGED filterFrame

\* lines 397-398: the list scored is sorted and returned
FilterReturn ==
    /\ fpc = "loop"
    /\ fi > Len(items)
    /\ flt' = [flt EXCEPT !.scored = Sorted(scored), !.pc = "returned"]
    /\ UNCHANGED filterFrame

\* 07_filter_candidates.py, lines 47-56: the list returned is sorted again in
\* prefer-faces mode, and saved
SaveCandidates ==
    /\ fpc = "returned"
    /\ flt' = [flt EXCEPT
                  !.candidates = IF prefer_faces THEN SortedFaces(scored) ELSE scored,
                  !.pc = "saved"]
    /\ UNCHANGED filterFrame

NextFilter ==
    \/ FilterStep
    \/ FilterReturn
    \/ SaveCandidates

FilterSpec == InitFilter /\ [][NextFilter]_vars

(***************************************************************************)
(* compute_interest_score applied to a record and to a variant of it: two  *)
(* values of face_count, or two values of phash, all else being equal.     *)
(* The record is the first of the list, the others follow it.              *)
(***************************************************************************)
\* most faces on a record in the model
MaxFaces == 3

FaceCounts == {-1} \cup (0..MaxFaces)

ScoreHashes == {HE, HA, HB}

\* the other records of the list
OtherLists ==
    UNION { [1..n -> {[Neutral EXCEPT !.phash = h] : h \in ScoreHashes}] : n \in 0..(MaxItems - 1) }

\* the six signals of a score
Signals == {"keyword", "uniqueness", "photo", "faces", "nsfw", "novelty"}

\* the record as compute_interest_score reads it when the input of signal s
\* is not in the record: item.get gives the default of the call, '' for
\* keywords_found (line 303) and phash (line 315), None for local_path
\* (line 324), 0 for face_count (line 340), False and 0.0 for likely_nsfw and
\* skin_fraction (lines 348, 351), {} for reverse_search_matches (line 359)
Without(item, s) ==
    CASE s = "keyword"    -> [item EXCEPT !.keywords_found = <<>>]
      [] s = "uniqueness" -> [item EXCEPT !.phash = HE]
      [] s = "photo"      -> [item EXCEPT !.stddev = NoImage]
      [] s = "faces"      -> [item EXCEPT !.face_count = 0]
      [] s = "nsfw"       -> [item EXCEPT !.likely_nsfw = FALSE, !.skin_fraction = 0]
      [] s = "novelty"    -> [item EXCEPT !.total_rev = 0]

\* what signal s adds to the score of item in the list all, in thousandths
Term(item, all, s) ==
    CASE s = "keyword"    -> KwScore(item)
      [] s = "uniqueness" -> Uniqueness(item, all)
      [] s = "photo"      -> PhotoScore(item)
      [] s = "faces"      -> FaceScore(item)
      [] s = "nsfw"       -> NsfwScore(item)
      [] s = "novelty"    -> NoveltyScore(item)

\* the score of rec in the list made of rec and the others
ScoreIn(rec, others) == compute_interest_score(rec, <<rec>> \o others)

\* the uniqueness term of rec in the list made of rec and the others
UniquenessIn(rec, others) == Uniqueness(rec, <<rec>> \o others)

scoreFrame == <<file, orchVars, writers, ham, clu, flt, job>>

InitScore ==
    /\ \E r \in Records, os \in OtherLists :
           \/ \E f1, f2 \in FaceCounts :
                  /\ f1 <= f2
                  /\ sco = [kind |-> "faces", rec |-> r, others |-> os, f1 |-> f1, f2 |-> f2,
                            p |-> HE, q |-> HE, sig |-> "", done |-> FALSE, r1 |-> 0, r2 |-> 0]
           \/ \E p, q \in ScoreHashes :
                  sco = [kind |-> "hashes", rec |-> r, others |-> os, f1 |-> 0, f2 |-> 0,
                         p |-> p, q |-> q, sig |-> "", done |-> FALSE, r1 |-> 0, r2 |-> 0]
           \/ \E s \in Signals :
                  sco = [kind |-> "missing", rec |-> r, others |-> os, f1 |-> 0, f2 |-> 0,
                         p |-> HE, q |-> HE, sig |-> s, done |-> FALSE, r1 |-> 0, r2 |-> 0]
    /\ file = Absent
    /\ NoPipeline
    /\ writers = Off
    /\ ham = Off
    /\ clu = Off
    /\ flt = Off
    /\ job = Off

\* the record is scored with face_count = f1 and with face_count = f2
ScoreFaces ==
    /\ sco.kind = "faces"
    /\ ~sco.done
    /\ sco' = [sco EXCEPT
                   !.done = TRUE,
                   !.r1 = ScoreIn([sco.rec EXCEPT !.face_count = sco.f1], sco.others),
                   !.r2 = ScoreIn([sco.rec EXCEPT !.face_count = sco.f2], sco.others)]
    /\ UNCHANGED scoreFrame

\* the uniqueness term of the record with phash = p and with phash = q
ScoreHashed ==
    /\ sco.kind = "hashes"
    /\ ~sco.done
    /\ sco' = [sco EXCEPT
                   !.done = TRUE,
                   !.r1 = UniquenessIn([sco.rec EXCEPT !.phash = sco.p], sco.others),
                   !.r2 = UniquenessIn([sco.rec EXCEPT !.phash = sco.q], sco.others)]
    /\ UNCHANGED scoreFrame

\* the record is scored without the input of one signal: r1 is what the
\* signal adds, r2 the score, both in the list made of the record and the others
ScoreMissing ==
    /\ sco.kind = "missing"
    /\ ~sco.done
    /\ LET it == Without(sco.rec, sco.sig)
       IN sco' = [sco EXCEPT
                      !.done = TRUE,
                      !.r1 = Term(it, <<it>> \o sco.others, sco.sig),
                      !.r2 = ScoreIn(it, sco.others)]
    /\ UNCHANGED scoreFrame

NextScore ==
    \/ ScoreFaces
    \/ ScoreHashed
    \/ ScoreMissing

ScoreSpec == InitScore /\ [][NextScore]_vars

(***************************************************************************)
(* scripts/08_run_ocr.py run on its own, with the texts it keeps in memory *)
(* and the texts in media_hashes.csv: the script may be terminated and     *)
(* run again.  Rows are counted from 0, as in the script.                  *)
(***************************************************************************)
\* position of the stage script run on its own
tpc == job.pc

\* its loop variable idx
tidx == job.idx

\* the dict its call of set_ is about to dump
tpending == job.pending

\* row -> the image at local_path exists
timg == job.img

\* the rows (items) that hold their result in the list the script has in memory
mem == job.mem

\* the rows whose full_text is the OCR text, in media_hashes.csv
csv == job.csv

\* history: the rows OCR-processed by some execution of the script
processed == job.processed

\* the executions of the stage script started so far
execs == job.execs

\* the value get('ocr_index', 0) returns
OcrIndex == Get(file, "ocr_index", PyInt(0)).val[2]

\* everything but a stage script run on its own and the state document
jobFrame == <<orchVars, writers, ham, clu, flt, sco>>

InitOcrText ==
    /\ file \in {Absent, ObjectFile(<< <<"step_hash", "true">> >>)}
    /\ \E im \in ImgPatterns :
           job = [pc |-> "idle", idx |-> 0, pending |-> <<>>, img |-> im, mem |-> {},
                  csv |-> {}, processed |-> {}, execs |-> 0]
    /\ NoPipeline
    /\ writers = Off
    /\ ham = Off
    /\ clu = Off
    /\ flt = Off
    /\ sco = Off

\* lines 41-45: the rows are read from the CSV, the cursor from the state document
TextStart ==
    /\ tpc \in {"idle", "done"}
    /\ execs < MaxRuns
    /\ job' = [job EXCEPT !.pc = "loop", !.idx = OcrIndex, !.mem = csv, !.execs = execs + 1]
    /\ UNCHANGED <<file, jobFrame>>

\* lines 49-52: a row without image gets its snippet; the cursor is not written
TextRowNoImage ==
    /\ tpc = "loop"
    /\ tidx < NRows
    /\ ~timg[tidx + 1]
    /\ job' = [job EXCEPT !.idx = tidx + 1]
    /\ UNCHANGED <<file, jobFrame>>

\* lines 54-58: the row is OCR-ed and its text kept in the list rows
TextRowWork ==
    /\ tpc = "loop"
    /\ tidx < NRows
    /\ timg[tidx + 1]
    /\ job' = [job EXCEPT !.mem = mem \cup {tidx}, !.processed = processed \cup {tidx},
                          !.pc = "set"]
    /\ UNCHANGED <<file, jobFrame>>

\* line 60, set_('ocr_index', idx+1): load, assign, open the file for writing
TextSetBegin ==
    /\ tpc = "set"
    /\ LET p == SetPrepare(file, "ocr_index", PyInt(tidx + 1))
       IN IF p.raised
          THEN job' = [job EXCEPT !.pc = "idle"] /\ UNCHANGED file
          ELSE job' = [job EXCEPT !.pending = p.d, !.pc = "set_write"] /\ file' = Truncated
    /\ UNCHANGED jobFrame

\* line 60, set_: the dump reaches the file; next row
TextSetEnd ==
    /\ tpc = "set_write"
    /\ file' = SaveState(tpending)
    /\ job' = [job EXCEPT !.pending = <<>>, !.idx = tidx + 1, !.pc = "loop"]
    /\ UNCHANGED jobFrame

\* lines 62-73: the rows are written back to the CSV, with the full_text they have
TextWriteBack ==
    /\ tpc = "loop"
    /\ tidx >= NRows
    /\ job' = [job EXCEPT !.csv = mem, !.pc = "done"]
    /\ UNCHANGED <<file, jobFrame>>

\* the script is terminated from outside before it writes the CSV back
TextInterrupt ==
    /\ tpc \in {"loop", "set", "set_write"}
    /\ job' = [job EXCEPT !.pc = "idle", !.pending = <<>>, !.mem = {}]
    /\ UNCHANGED <<file, jobFrame>>

NextOcrText ==
    \/ TextStart
    \/ TextRowNoImage
    \/ TextRowWork
    \/ TextSetBegin
    \/ TextSetEnd
    \/ TextWriteBack
    \/ TextInterrupt

OcrTextSpec == InitOcrText /\ [][NextOcrText]_vars

(***************************************************************************)
(* scripts/10_finish_social_checks.py run on its own, with the items it    *)
(* keeps in memory and the items in underreported_media.json: a check may  *)
(* raise, and the script may be terminated and run again.  Items are       *)
(* counted from 0, as in the script.                                       *)
(***************************************************************************)
\* the items of underreported_media.json
NSocItems == 2

\* the results file: "ok", or "cut" between open(RESULTS_JSON, 'w') and the dump
res == job.res

\* the items that carry the signals of a check, in underreported_media.json
saved == job.saved

\* history: the items whose check raised and that no execution has checked since
failed == job.failed

\* the value get('social_index', 0) returns
SocialIndex == Get(file, "social_index", PyInt(0)).val[2]

InitSocialItem ==
    /\ file \in {Absent, ObjectFile(<< <<"step_ocr", "true">> >>)}
    /\ job = [pc |-> "idle", idx |-> 0, pending |-> <<>>, res |-> "ok", mem |-> {},
              saved |-> {}, failed |-> {}, execs |-> 0]
    /\ NoPipeline
    /\ writers = Off
    /\ ham = Off
    /\ clu = Off
    /\ flt = Off
    /\ sco = Off

\* lines 26-30: the items are read from the results file, the cursor from the
\* state document; json.load raises on a file cut short
ItemStart ==
    /\ tpc \in {"idle", "done"}
    /\ execs < MaxRuns
    /\ job' = IF res = "cut"
              THEN [job EXCEPT !.pc = "idle", !.execs = execs + 1]
              ELSE [job EXCEPT !.pc = "loop", !.idx = SocialIndex, !.mem = saved,
                               !.execs = execs + 1]
    /\ UNCHANGED <<file, jobFrame>>

\* lines 37-42: the three lookups succeed and the item is updated in memory
ItemCheckOk ==
    /\ tpc = "loop"
    /\ tidx < NSocItems
    /\ job' = [job EXCEPT !.mem = mem \cup {tidx}, !.failed = failed \ {tidx}, !.pc = "res"]
    /\ UNCHANGED <<file, jobFrame>>

\* lines 50-52: a lookup raises; the error is logged and the loop goes on
ItemCheckRaise ==
    /\ tpc = "loop"
    /\ tidx < NSocItems
    /\ job' = [job EXCEPT !.failed = failed \cup {tidx}, !.idx = tidx + 1]
    /\ UNCHANGED <<file, jobFrame>>

\* line 45: open(RESULTS_JSON, 'w') empties the file
ItemWriteBegin ==
    /\ tpc = "res"
    /\ job' = [job EXCEPT !.res = "cut", !.saved = {}, !.pc = "res_write"]
    /\ UNCHANGED <<file, jobFrame>>

\* line 46: json.dump(items, f)
ItemWriteEnd ==
    /\ tpc = "res_write"
    /\ job' = [job EXCEPT !.res = "ok", !.saved = mem, !.pc = "set"]
    /\ UNCHANGED <<file, jobFrame>>

\* line 48, set_('social_index', idx+1): load, assign, open the file for
\* writing; an exception is caught at line 50
ItemSetBegin ==
    /\ tpc = "set"
    /\ LET p == SetPrepare(file, "social_index", PyInt(tidx + 1))
       IN IF p.raised
          THEN job' = [job EXCEPT !.idx = tidx + 1, !.pc = "loop"] /\ UNCHANGED file
          ELSE job' = [job EXCEPT !.pending = p.d, !.pc = "set_write"] /\ file' = Truncated
    /\ UNCHANGED jobFrame

\* line 48, set_: the dump reaches the file; next item
ItemSetEnd ==
    /\ tpc = "set_write"
    /\ file' = SaveState(tpending)
    /\ job' = [job EXCEPT !.pending = <<>>, !.idx = tidx + 1, !.pc = "loop"]
    /\ UNCHANGED jobFrame

\* line 54: the loop is over
ItemFinish ==
    /\ tpc = "loop"
    /\ tidx >= NSocItems
    /\ job' = [job EXCEPT !.pc = "done"]
    /\ UNCHANGED <<file, jobFrame>>

\* the script is terminated from outside
ItemInterrupt ==
    /\ tpc \in {"loop", "res", "res_write", "set", "set_write"}
    /\ job' = [job EXCEPT !.pc = "idle", !.pending = <<>>, !.mem = {}]
    /\ UNCHANGED <<file, jobFrame>>

NextSocialItem ==
    \/ ItemStart
    \/ ItemCheckOk
    \/ ItemCheckRaise
    \/ ItemWriteBegin
    \/ ItemWriteEnd
    \/ ItemSetBegin
    \/ ItemSetEnd
    \/ ItemFinish
    \/ ItemInterrupt

SocialItemSpec == InitSocialItem /\ [][NextSocialItem]_vars

(***************************************************************************)
(* Properties.                                                             *)
(***************************************************************************)
\* the state document says stage j is complete
Recorded(f, j) == Truthy(Get(f, StepKey(j), PyFalse).val)

\* stage j occurs in the sequence of invoked stages
Invoked(j) == \E i \in 1..Len(calls) : calls[i] = j

\* the executor of stage si has just been started and has done nothing yet
JustInvoked == pc = "exec" /\ spc \in {"run", "start"}

\* load_state() makes an empty dict of the file
EmptyDoc(f) == LoadState(f) = [t |-> "dict", d |-> <<>>]

\* C1: a stage whose key step_<name> reads true when the run reaches it is
\* skipped: its executor is not invoked in that run and the run is past it
\* (at a later stage, or complete).
C1_SkipCompleted ==
    \A j \in readTrue : ~Invoked(j) /\ (si > j \/ pc = "done")

\* C1 witness: step_fetch read true, and the run invoked download only
C1_Witness == 1 \in readTrue /\ calls = <<2>> /\ pc = "exec"

\* C2: when an executor reports failure the run stops at once: the failed
\* stage is not recorded, it was invoked once and nothing after it, and the
\* state document is the one the executor left.
C2_FailureStops ==
    failedAt # 0 =>
        /\ pc = "aborted"
        /\ ~Recorded(file, failedAt)
        /\ calls[Len(calls)] = failedAt
        /\ Cardinality({i \in 1..Len(calls) : calls[i] = failedAt}) = 1
        /\ file = failSnap

\* C2 witness: download failed after fetch had been recorded in the same run
C2_Witness ==
    failedAt = 2 /\ pc = "aborted" /\ calls = <<1, 2>> /\ Recorded(file, 1)

\* C3: starting from an empty state document, step_<name> is true only if the
\* stage's executor has returned success; and when the next executor is
\* invoked, every stage that ran before it in this run is recorded true, no
\* stage having been invoked twice in the run.
C3_RecordedIffSucceeded ==
    /\ EmptyDoc(initFile) => \A j \in 1..NSteps : Recorded(file, j) => okCount[j] >= 1
    /\ JustInvoked => \A i \in 1..(Len(calls) - 1) : Recorded(file, calls[i])
    /\ \A i, k \in 1..Len(calls) : calls[i] = calls[k] => i = k

\* C3 witness: from an empty document, the third executor of a run is started
C3_Witness ==
    EmptyDoc(initFile) /\ JustInvoked /\ calls = <<1, 2, 3>> /\ okCount[2] = 1

\* C4: executors are invoked in list order, and a stage's executor is invoked
\* only when every earlier stage of the list is recorded complete.
C4_StageOrder ==
    /\ \A i \in 1..(Len(calls) - 1) : calls[i] < calls[i + 1]
    /\ pc = "exec" => calls # <<>> /\ calls[Len(calls)] = si
    /\ JustInvoked => \A j \in 1..(si - 1) : Recorded(file, j)

\* C4 witness: the last stage is invoked after all the others ran in this run
C4_Witness == JustInvoked /\ si = NSteps /\ Len(calls) = NSteps

\* C5: over any sequence of runs, interrupted or aborted ones included, no
\* stage's executor returns success more than once.
C5_ExactlyOnce == \A j \in 1..NSteps : okCount[j] <= 1

\* C6: a restarted cursor stage performs again at most one unit of work that
\* an earlier execution had already performed.
C6_AtMostOneRedone ==
    /\ Cardinality(ocrCur \cap ocrPrev) <= 1
    /\ Cardinality(socCur \cap socPrev) <= 1

\* the run started against a missing or corrupt document and has made a step
StartedOnCorrupt ==
    /\ pc \in {"exec", "mark", "mark_write", "done", "aborted", "crashed"}
    /\ startFile.kind \in {"absent", "garbage", "nonobject"}

\* C7: a run started against a missing or corrupt state document raises no
\* error, finds no stage recorded complete and starts at the first stage.
C7_CorruptIsEmpty ==
    StartedOnCorrupt => pc # "crashed" /\ readTrue = {} /\ calls # <<>> /\ calls[1] = 1

\* the value a readable document stores under key k: its last member named k
Stored(f, k) ==
    DecodeToken(f.body[CHOOSE i \in 1..Len(f.body) :
        f.body[i][1] = k /\ \A m \in (i + 1)..Len(f.body) : f.body[m][1] # k][2])

Holds(f, k) == f.kind = "object" /\ \E i \in 1..Len(f.body) : f.body[i][1] = k

\* C8: get never raises; it returns the stored value when the key is in a
\* readable document and the default otherwise (file absent, key absent,
\* content unparseable or not a JSON object).
C8_GetNeverRaises ==
    lastOp.op = "get" =>
        /\ ~lastOp.raised
        /\ lastOp.ret = IF Holds(lastOp.before, lastOp.key)
                        THEN Stored(lastOp.before, lastOp.key)
                        ELSE lastOp.val

\* C9: after set(key, value) on a readable document, get(key, d) is value for
\* every d, and get(k, d) is what it was before for every other key k.
C9_SetChangesOneKey ==
    (lastOp.op = "set" /\ lastOp.before.kind = "object") =>
        /\ \A d \in Defaults : Get(file, lastOp.key, d) = [raised |-> FALSE, val |-> lastOp.val]
        /\ \A k \in AllKeys \ {lastOp.key} : \A d \in Defaults :
               Get(file, k, d) = Get(lastOp.before, k, d)

\* C9 witness: set overwrote a key of a document that holds two other members
C9_Witness ==
    /\ lastOp.op = "set"
    /\ Len(lastOp.before.body) = 3
    /\ Holds(lastOp.before, lastOp.key)
    /\ Stored(lastOp.before, lastOp.key) # lastOp.val

\* C10: a second set(key, value) right after the same call leaves the state
\* file as the first call left it.
C10_SetIdempotent ==
    (lastOp.op = "set" /\ lastOp.rep) => file = lastOp.before

\* C10 witness: the call was repeated on a document with several keys
C10_Witness ==
    lastOp.op = "set" /\ lastOp.rep /\ ~lastOp.raised /\ Len(file.body) >= 2

\* both calls of set_ have returned, and they named different keys
BothReturned ==
    /\ \A w \in Writers : wpc[w] = "returned"
    /\ wcall[1][1] # wcall[2][1]

\* the document holds what writer w stored
Kept(w) == Holds(file, wcall[w][1]) /\ Stored(file, wcall[w][1]) = wcall[w][2]

\* C11: without locking an update can be lost only when the two calls of set_
\* interleave: once set(k1, v1) and set(k2, v2), k1 # k2, have both returned
\* and neither call loaded the file while the other was between its load and
\* its return, the document holds both keys with their values.
C11_LostOnlyIfInterleaved ==
    (BothReturned /\ ~overlapped) => \A w \in Writers : Kept(w)

\* C11 witness: the lost update; both calls have returned and the document,
\* readable, lacks the key of the first writer
C11_Witness ==
    BothReturned /\ file.kind = "object" /\ ~Holds(file, wcall[1][1]) /\ Kept(2)

\* C14 as stated: hamming(a, b) = hamming(b, a) for all hash inputs, and
\* hamming(a, a) = 0 for every hash input a.
C14_SymmetricZeroSelf ==
    hout.called =>
        /\ hout.ab = hout.ba
        /\ hout.aa = [raised |-> FALSE, val |-> 0]

\* C14 amended: hamming(a, b) and hamming(b, a) have the same outcome for all
\* hash inputs; hamming(a, a) = 0 for every non-empty hexadecimal a, and for
\* the empty hash hamming(a, a) is the sentinel 999.
C14_SymmetricZeroOnHex ==
    hout.called =>
        /\ hout.ab = hout.ba
        /\ (hin[1] # <<>> /\ IsHex(hin[1])) => hout.aa = [raised |-> FALSE, val |-> 0]
        /\ hin[1] = <<>> => hout.aa = [raised |-> FALSE, val |-> Sentinel]

\* C14 witness: two different hashes 20 bits apart have been compared
C14_Witness ==
    hout.called /\ hin = <<HA, HD>> /\ hout.ab.val = 20 /\ hout.aa.val = 0

\* C15: when either argument is empty or not hexadecimal, hamming returns,
\* without raising, a value above the threshold.
C15_SentinelOnBadHash ==
    (hout.called /\ \E i \in 1..2 : hin[i] = <<>> \/ ~IsHex(hin[i])) =>
        ~hout.ab.raised /\ hout.ab.val > threshold

\* rows i and j compare without an error, at most threshold bits apart
Close(i, j) ==
    LET d == hamming(rows[i].phash, rows[j].phash)
    IN ~d.raised /\ d.val <= threshold

\* the clusters built so far, the one under construction included
Built ==
    {clusters[k] : k \in 1..Len(clusters)}
        \cup {[k \in 1..Len(cluster) |-> cluster[k].local_path]}

\* C12: in every cluster the first member is the seed, which comes before the
\* other members in the input, and every other member is at most threshold
\* bits from the seed.  (Two non-seed members may be further apart: see the
\* witness.)
C12_WithinThresholdOfSeed ==
    \A c \in Built : \A k \in 2..Len(c) : c[1] < c[k] /\ Close(c[1], c[k])

\* C12 witness: an output cluster of three whose two non-seed members are
\* more than threshold bits apart
C12_Witness ==
    /\ cpc = "done"
    /\ \E k \in 1..Len(clusters) :
           Len(clusters[k]) = 3 /\ ~Close(clusters[k][2], clusters[k][3])

\* the seed that takes row j: the first earlier seed close to it, or j itself
RECURSIVE SeedOf(_)
SeedOf(j) ==
    LET near == {i \in 1..(j - 1) : SeedOf(i) = i /\ Close(i, j)}
    IN IF near = {} THEN j ELSE CHOOSE i \in near : \A m \in near : i <= m

\* the members of a set of rows in input order
RECURSIVE Ascending(_)
Ascending(S) ==
    IF S = {} THEN <<>>
    ELSE LET m == CHOOSE i \in S : \A k \in S : i <= k
         IN <<m>> \o Ascending(S \ {m})

\* every seed with all the rows it takes, the seeds that take none left out
ExpectedClusters ==
    LET Group(i) == {j \in 1..Len(rows) : SeedOf(j) = i}
        big == Ascending({i \in 1..Len(rows) : SeedOf(i) = i /\ Cardinality(Group(i)) > 1})
    IN [k \in 1..Len(big) |-> Ascending(Group(big[k]))]

\* C13: when the script ends, every seed (a row no earlier seed took) has
\* taken every later row that no earlier seed took and that is at most
\* threshold bits from it, and no other row; the clusters are these groups
\* of two rows or more, in input order.
C13_AbsorbsEligible ==
    cpc = "done" => clusters = ExpectedClusters

\* C13 witness: the example; two rows with the hash ffff0000ffff0000 and a
\* third 20 bits away give one cluster holding the first two
C13_Witness ==
    /\ cpc = "done"
    /\ Len(rows) = 3
    /\ [i \in 1..3 |-> rows[i].phash] = <<HA, HA, HD>>
    /\ clusters = <<<<1, 2>>>>

\* the record of id i is in the list returned
Returned_(i) == \E k \in 1..Len(scored) : scored[k].id = i

\* C16: the filter returns a record if and only if its virality_score is
\* below the virality threshold and its interest score, computed against the
\* whole input list, is at least min_interest; no record returned has a
\* virality_score at or above the threshold.
C16_ReturnsIffBelowAndInteresting ==
    fpc = "returned" =>
        /\ \A i \in 1..Len(input) :
               Returned_(i) <=>
                   /\ input[i].virality_score < virality_threshold
                   /\ compute_interest_score(input[i], input) >= min_interest
        /\ \A k \in 1..Len(scored) : scored[k].virality_score < virality_threshold
        /\ \A k, m \in 1..Len(scored) : scored[k].id = scored[m].id => k = m

\* C16 witness: the example; of two records with virality 2 and 8, at
\* threshold 5 and min_interest 3, only the first is returned
C16_Witness ==
    /\ fpc = "returned"
    /\ Len(input) = 2
    /\ input[1].virality_score = 200 /\ input[1].keywords_found = <<"nude", "passport">>
    /\ input[2].virality_score = 800 /\ input[2].keywords_found = <<"video">>
    /\ virality_threshold = 500 /\ min_interest = 300
    /\ Len(scored) = 1 /\ scored[1].id = 1

\* C17: the list returned is in non-increasing order of interest score, and
\* records of equal score are in the order they have in the input.
C17_SortedStable ==
    fpc = "returned" =>
        \A k, m \in 1..Len(scored) :
            k < m => /\ scored[k].interest >= scored[m].interest
                     /\ scored[k].interest = scored[m].interest => scored[k].id < scored[m].id

\* C17 witness: three records returned, two of equal score, the first of the
\* input not first in the output
C17_Witness ==
    /\ fpc = "returned"
    /\ Len(scored) = 3
    /\ scored[1].id # 1
    /\ \E k \in 1..2 : scored[k].interest = scored[k + 1].interest

\* C18: after the call every input record, kept or not, carries the score
\* of the record against the whole input list as _interest_score, no other
\* field has changed, and the list holds the same records in the same order;
\* during the call the records not yet reached are as they were.
C18_AnnotatesEveryRecord ==
    /\ Len(items) = Len(input)
    /\ \A i \in 1..Len(input) :
           items[i] = IF i < fi
                      THEN [input[i] EXCEPT !.interest = compute_interest_score(input[i], input)]
                      ELSE input[i]
    /\ fpc = "returned" => fi = Len(input) + 1

\* C18 witness: the call has returned, it kept one record and rejected one
\* with faces, and both are annotated
C18_Witness ==
    /\ fpc = "returned"
    /\ Len(items) = 2 /\ Len(scored) = 1
    /\ ~Returned_(1) /\ items[1].interest # NoScore /\ items[2].interest # NoScore
    /\ \E i \in 1..2 : items[i].face_count > 0

\* min(2.0, face_count * 0.8), in hundredths
FaceTerm(f) == Least(200, f * 80)

\* C19: the score is non-decreasing in face_count, for all integers
\* f1 <= f2 and all else being equal; for the face counts of a record, which
\* are not negative, the scores differ by the difference of the face terms
\* min(2.0, face_count * 0.8).
C19_MonotonicInFaces ==
    (sco.kind = "faces" /\ sco.done) =>
        /\ sco.r1 <= sco.r2
        /\ sco.f1 >= 0 => sco.r2 - sco.r1 = FaceTerm(sco.f2) - FaceTerm(sco.f1)

\* C19 witness: one face against three, where the term is capped at 2.0
C19_Witness ==
    /\ sco.kind = "faces" /\ sco.done
    /\ sco.f1 = 1 /\ sco.f2 = 3
    /\ sco.r2 - sco.r1 = 120

\* the hash h is the phash of one of the other records
OnAnother(h) == \E i \in 1..Len(sco.others) : sco.others[i].phash = h

\* C20: a record whose phash also occurs on another record of the list gets a
\* uniqueness term lower than or equal to that of the same record with a
\* phash that occurs on no other record.
C20_DuplicateNotAbove ==
    (sco.kind = "hashes" /\ sco.done /\ OnAnother(sco.p) /\ ~OnAnother(sco.q)) =>
        sco.r1 <= sco.r2

\* C21: a signal whose input field is not in the record adds exactly 0 to
\* the score of the record, for each of the six signals.
C21_MissingContributesZero ==
    (sco.kind = "missing" /\ sco.done) => sco.r1 = 0

\* the number of the other records with the phash h
OthersWith(h) == Cardinality({i \in 1..Len(sco.others) : sco.others[i].phash = h})

\* C22: the uniqueness term of a record in a list that holds it is the
\* weight 3 divided by one more than the number of the OTHER records of the
\* list with the same phash; a record whose phash no other record has gets
\* the whole weight.
C22_UniquenessCountsOthers ==
    (sco.kind = "hashes" /\ sco.done) =>
        sco.r1 = (1000 * uniqueness_weight) \div (1 + OthersWith(sco.p))

\* C23: in prefer-faces mode every saved candidate with a face is before
\* every candidate with none, within each group the interest score does not
\* increase, candidates equal on both keep the order they had in the input,
\* and the candidates are those returned without the mode.
C23_PreferFacesOrder ==
    (fpc = "saved" /\ prefer_faces) =>
        /\ Len(candidates) = Len(scored)
        /\ {candidates[k] : k \in 1..Len(candidates)} = {scored[k] : k \in 1..Len(scored)}
        /\ \A k, m \in 1..Len(candidates) :
               k < m =>
                   /\ HasFaces(candidates[m]) => HasFaces(candidates[k])
                   /\ HasFaces(candidates[k]) = HasFaces(candidates[m]) =>
                          /\ candidates[k].interest >= candidates[m].interest
                          /\ candidates[k].interest = candidates[m].interest =>
                                 candidates[k].id < candidates[m].id

\* C23 witness: three candidates saved in prefer-faces mode, the one with
\* faces first although its score is below that of the next, which
\* has the score of the last
C23_Witness ==
    /\ fpc = "saved" /\ prefer_faces
    /\ Len(candidates) = 3
    /\ HasFaces(candidates[1]) /\ ~HasFaces(candidates[2])
    /\ candidates[1].interest < candidates[2].interest
    /\ candidates[2].interest = candidates[3].interest
    /\ candidates # scored

\* the local_path values listed so far: those of the clusters appended and
\* those of the cluster being built
Listed == [a \in 1..(Len(clusters) + 1) |->
              IF a <= Len(clusters) THEN clusters[a]
              ELSE IF cpc = "inner" THEN [k \in 1..Len(cluster) |-> cluster[k].local_path]
              ELSE <<>>]

\* C24: the clusters are pairwise disjoint and without repetition: a row is
\* listed at most once, in at most one cluster, at every point of the run;
\* and a row listed is marked as used.
C24_ClustersDisjoint ==
    /\ \A a, b \in 1..Len(Listed) :
           \A k \in 1..Len(Listed[a]), m \in 1..Len(Listed[b]) :
               Listed[a][k] = Listed[b][m] => a = b /\ k = m
    /\ \A a \in 1..Len(Listed) : \A k \in 1..Len(Listed[a]) : Listed[a][k] \in used

\* C24 witness: the run is over with two clusters, the second opened after
\* a row of the first was passed over
C24_Witness ==
    /\ cpc = "done"
    /\ Len(clusters) = 2
    /\ clusters[1] = <<1, 3>>
    /\ clusters[2] = <<2, 4>>

\* row i is a seed: no cluster lists it after its first member
IsSeed(i) ==
    \A c \in 1..Len(clusters) : \A k \in 2..Len(clusters[c]) : clusters[c][k] # i

\* C25: when the script ends, any two distinct seeds, those of the clusters
\* and the rows left alone alike, are more than threshold bits apart.
C25_SeedsApart ==
    cpc = "done" =>
        \A i, j \in 1..Len(rows) :
            (i # j /\ IsSeed(i) /\ IsSeed(j)) =>
                LET d == hamming(rows[i].phash, rows[j].phash)
                IN ~d.raised /\ d.val > threshold

\* C25 witness: the seed of a cluster and a row left alone between its
\* members, 20 bits apart
C25_Witness ==
    /\ cpc = "done"
    /\ clusters = <<<<1, 3>>>>
    /\ IsSeed(2)
    /\ hamming(rows[1].phash, rows[2].phash).val = 20

\* main() has printed "Pipeline complete" and every stage is recorded complete
Complete == pc = "done" /\ \A j \in 1..NSteps : Recorded(file, j)

\* C26: when run_pipeline.py is run again and again on the same state
\* document and every executor reports success in the end, a run finishes
\* with every step_<name> true.
C26_EventuallyComplete == <>Complete

\* C27: the cursor is never ahead of the durable results: when the script
\* has written the CSV back, the CSV holds the OCR text of every row below
\* ocr_index that some execution of the script has OCR-processed.
C27_CursorBehindResults ==
    tpc = "done" => \A r \in processed : r < OcrIndex => r \in csv

InSet == pc = "mark_write" \/ (pc = "exec" /\ spc = "set_write")

\* the key that call is writing
WrittenKey ==
    IF pc = "mark_write" THEN StepKey(si)
    ELSE IF si = OcrStage THEN "ocr_index" ELSE "social_index"

\* C29: a process terminated in the middle of a call of set_ loses nothing
\* that was recorded: every other key the call had loaded from the document
\* reads the same value after the termination.
C29_InterruptKeepsRecorded ==
    [][(InSet /\ pc' = "killed") =>
          \A i \in 1..Len(pending) :
              pending[i][1] # WrittenKey =>
                  Get(file', pending[i][1], PyNone).val = pending[i][2]]_vars

\* C30: in the runs that start from an empty state document, a state document
\* that records the stage social as complete implies that the results file
\* of the social checks exists.
C30_CompleteImpliesOutput ==
    (initFile = Absent /\ Recorded(file, SocialStage)) => results # "absent"

====
